---- MODULE Spec2Model ----
(***************************************************************************)
(* Task lifecycle and authorization of the Ghana Task Hub backend          *)
(* (backend/app/api/v1/tasks.py) and the one-time codes of its             *)
(* authentication endpoints (backend/app/api/v1/auth.py).  The shared      *)
(* state is the task table, the users table and the dictionary of issued   *)
(* codes; every endpoint is one action, or two where statements of         *)
(* different requests interleave.                                          *)
(*                                                                         *)
(* Money is kept in integer minor units (pesewas, 1 GHS = 100), so the     *)
(* minimum price 10 GHS reads 1000.  The platform fee is the product       *)
(* price * 0.05, which the code does not round; it is kept in units of     *)
(* 1/FeeScale of a minor unit so that the product stays exact.             *)
(*                                                                         *)
(* Optional values (Python None) are sequences of length at most one:      *)
(* None == <<>> and Some(v) == <<v>>.                                      *)
(***************************************************************************)
EXTENDS Integers, Sequences, FiniteSets, TLC

VARIABLES tasks, now, nops, last, conc, otp_storage, users

vars == <<tasks, now, nops, last, conc, otp_storage, users>>

\* The state of the authentication endpoints (backend/app/api/v1/auth.py):
\* the one-time codes by phone and the phones of the users table.
auth == <<otp_storage, users>>

(* ------------------------------ bounds --------------------------------- *)

MaxTasks == 2

MaxOps == 2

MaxTime == 1

\* Requests to PUT /tasks/{task_id} that run at the same time.
MaxProcs == 2

(* ------------------------- optional values ----------------------------- *)

None == <<>>

Some(v) == <<v>>

\* Python truthiness of Optional[str]: None and "" are falsy.
TruthyStr(o) == o # None /\ o[1] # ""

\* Python truthiness of Optional[int] / Optional[float] / Optional[datetime]:
\* None and 0 are falsy (a datetime is always truthy and is never 0 here).
TruthyNum(o) == o # None /\ o[1] # 0

\* str(x) of a nullable column: str(None) is the text "None".
StrOf(o) == IF o = None THEN "None" ELSE o[1]

(* --------------------------- enumerations ------------------------------ *)

TaskStatus ==
    {"CREATED", "ASSIGNED", "EN_ROUTE", "ON_SITE", "IN_PROGRESS",
     "COMPLETED", "CANCELLED", "DISPUTED"}

TaskPriority == {"LOW", "MEDIUM", "HIGH", "URGENT"}

Roles == {"CLIENT", "TASKER", "ADMIN"}

Users == {"u1", "u2"}

(* --------------------------- response kinds ---------------------------- *)

OK == "OK"

ValueError == "ValueError"

HTTP_400_BAD_REQUEST == "HTTP_400_BAD_REQUEST"

HTTP_401_UNAUTHORIZED == "HTTP_401_UNAUTHORIZED"

HTTP_403_FORBIDDEN == "HTTP_403_FORBIDDEN"

HTTP_404_NOT_FOUND == "HTTP_404_NOT_FOUND"

(* ------------------------------ pricing -------------------------------- *)

\* validate_price: "if v < 10", in minor units.
MinPrice == 10 * 100

\* Fee amounts are in units of 1/FeeScale of a minor unit.
FeeScale == 10 * 10

\* Variant: the fee rounded down to whole minor units.
platform_fee_whole_units(priceGHS) == ((priceGHS * 5) \div 100) * FeeScale

\* platform_fee = request.priceGHS * 0.05  (0.05 = 5/100, not rounded)
platform_fee(priceGHS) == (priceGHS * 5 * FeeScale) \div 100

(* ------------------------------ requests ------------------------------- *)

\* A bearer credential: either one verify_token rejects, or a payload.
BadToken == [valid |-> FALSE, sub |-> "", role |-> ""]

Credentials ==
    {BadToken} \cup [valid : {TRUE}, sub : Users, role : Roles]

\* Variant: every token is taken as verified.
verify_token_lenient(cred) == TRUE

\* verify_token: jwt.decode succeeds, otherwise 401.
verify_token(cred) == cred.valid

\* get_current_user: the claims of a verified token.
get_current_user(cred) == [user_id |-> cred.sub, role |-> cred.role]

\* Fields a caller may put in the JSON body although TaskCreateRequest does
\* not declare them.
NoExtra == [status |-> None, clientId |-> None, platformFeeGHS |-> None]

Extras ==
    {NoExtra,
     [status |-> Some("COMPLETED"), clientId |-> Some("u2"),
      platformFeeGHS |-> Some(0)]}

Title4 == "abcd"

Title5 == "abcde"

Desc19 == "nineteen characters"

Desc20 == "twenty characters ok"

Drafts ==
    [title : {Title4, Title5},
     description : {Desc19, Desc20},
     scheduledAt : {5},
     durationEstMins : {30},
     priceGHS : {999, 1000, 1010},
     priority : {"MEDIUM"},
     isUrgent : {FALSE},
     extra : Extras]

\* TaskCreateRequest validators.
validate_title(v) == Len(v) >= 5

validate_description(v) == Len(v) >= 20

\* Variant: the minimum price itself is refused.
validate_price_exclusive(v) == v > MinPrice

validate_price(v) == ~(v < MinPrice)

TaskCreateRequestValid(d) ==
    /\ validate_title(d.title)
    /\ validate_description(d.description)
    /\ validate_price(d.priceGHS)

\* The fields TaskUpdateRequest declares.
PatchFields ==
    {"title", "description", "scheduledAt", "durationEstMins", "priceGHS",
     "priority", "isUrgent", "status"}

\* A PUT body with every declared field null.  `extra` holds fields the body
\* may carry although TaskUpdateRequest does not declare them.
EmptyPatch ==
    [title |-> None, description |-> None, scheduledAt |-> None,
     durationEstMins |-> None, priceGHS |-> None, priority |-> None,
     isUrgent |-> None, status |-> None,
     extra |-> [clientId |-> None, taskerId |-> None]]

\* A body that also names another owner and another tasker.
OtherOwner == [clientId |-> Some("u2"), taskerId |-> Some("u1")]

\* TaskUpdateRequest: every field optional, no validators.
Patches ==
    {EmptyPatch}
    \cup {[EmptyPatch EXCEPT !.status = Some(s)] : s \in TaskStatus}
    \cup {[EmptyPatch EXCEPT !.priceGHS = Some(p)] : p \in {0, 500, 3000}}
    \cup {[EmptyPatch EXCEPT !.title = Some(t)] : t \in {"", "wxyz"}}
    \cup {[EmptyPatch EXCEPT !.durationEstMins = Some(m)] : m \in {0, 45}}
    \cup {[EmptyPatch EXCEPT !.isUrgent = Some(b)] : b \in BOOLEAN}
    \cup {[EmptyPatch EXCEPT !.title = Some("wxyz"), !.priceGHS = Some(p)] :
            p \in {0, 3000}}
    \cup {[EmptyPatch EXCEPT !.isUrgent = Some(TRUE), !.extra = OtherOwner]}

NoReq == [none |-> TRUE]

MaxPage == 3

\* Query(1, ge=1)
Pages == 1 .. MaxPage

\* Query(20, ge=1, le=50)
MaxLimit == 50

Limits == {1, 2, MaxLimit}

NoFilter ==
    [status |-> None, clientId |-> None, taskerId |-> None,
     minPrice |-> None, maxPrice |-> None, priority |-> None,
     isUrgent |-> None]

\* The query parameters of GET /tasks (without the text searches).
Filters ==
    [status : {None, Some("CREATED")},
     clientId : {None, Some("u1")},
     taskerId : {None},
     minPrice : {None, Some(1010)},
     maxPrice : {None, Some(0), Some(1010)},
     priority : {None},
     isUrgent : {None}]

(* ------------------------------- store --------------------------------- *)

TaskIds == 1 .. MaxTasks

\* A row that was inserted and assigned to a tasker before this process
\* started (nothing in the tasks endpoints writes taskerId).
SeedTask ==
    [id |-> 1, title |-> Title5, description |-> Desc20,
     clientId |-> "u1", taskerId |-> Some("u2"),
     scheduledAt |-> 5, durationEstMins |-> 30,
     status |-> "ASSIGNED", priority |-> "MEDIUM", isUrgent |-> FALSE,
     priceGHS |-> 2000, platformFeeGHS |-> platform_fee(2000),
     createdAt |-> 0, updatedAt |-> None]

SeedStores == {<<>>, <<SeedTask>>}

\* uuid.uuid4(): an id no row has yet.
FreshId == Len(tasks) + 1

Exists(task_id) == task_id \in DOMAIN tasks

\* Variant: the SELECT without its WHERE clause, which finds the first row.
fetchone_any(store, task_id) ==
    IF store # <<>> THEN Some(store[1]) ELSE None

\* SELECT * FROM tasks WHERE id = :task_id, then result.fetchone().
fetchone(store, task_id) ==
    IF task_id \in DOMAIN store THEN Some(store[task_id]) ELSE None

(* ------------------------------ actions -------------------------------- *)

\* No request is in flight.
NoConc == <<>>

\* The outcome of a request: the response kind and the statements the
\* handler passed to db.execute before it answered.
RespondWith(op, cred, task_id, req, code, db, res) ==
    last' = [op |-> op, code |-> code, id |-> task_id, cred |-> cred,
             req |-> req, db |-> db, res |-> res]

\* A response without data.
Respond(op, cred, task_id, req, code, db) ==
    RespondWith(op, cred, task_id, req, code, db, <<>>)

\* Variant: status and clientId are taken from the body when it has them.
task_data_from_body(request, current_user, id, t) ==
    [id |-> id,
     title |-> request.title,
     description |-> request.description,
     clientId |-> IF request.extra.clientId # None
                  THEN request.extra.clientId[1] ELSE current_user.user_id,
     taskerId |-> None,
     scheduledAt |-> request.scheduledAt,
     durationEstMins |-> request.durationEstMins,
     status |-> IF request.extra.status # None
                THEN request.extra.status[1] ELSE "CREATED",
     priority |-> request.priority,
     isUrgent |-> request.isUrgent,
     priceGHS |-> request.priceGHS,
     platformFeeGHS |-> platform_fee(request.priceGHS),
     createdAt |-> t,
     updatedAt |-> None]

\* The row create_task inserts: task_data plus the column defaults of Task.
task_data(request, current_user, id, t) ==
    [id |-> id,
     title |-> request.title,
     description |-> request.description,
     clientId |-> current_user.user_id,
     taskerId |-> None,
     scheduledAt |-> request.scheduledAt,
     durationEstMins |-> request.durationEstMins,
     status |-> "CREATED",
     priority |-> request.priority,
     isUrgent |-> request.isUrgent,
     priceGHS |-> request.priceGHS,
     platformFeeGHS |-> platform_fee(request.priceGHS),
     createdAt |-> t,
     updatedAt |-> None]

\* POST /tasks
create_task(cred, request) ==
    /\ nops < MaxOps
    /\ nops' = nops + 1
    /\ UNCHANGED <<now, conc, auth>>
    /\ IF ~verify_token(cred)
         THEN /\ Respond("create", cred, 0, request, HTTP_401_UNAUTHORIZED,
                         <<>>)
              /\ UNCHANGED tasks
         ELSE IF ~TaskCreateRequestValid(request)
         THEN /\ Respond("create", cred, 0, request, ValueError, <<>>)
              /\ UNCHANGED tasks
         ELSE /\ Len(tasks) < MaxTasks
              /\ tasks' = Append(tasks,
                     task_data(request, get_current_user(cred), FreshId, now))
              /\ Respond("create", cred, FreshId, request, OK, <<"INSERT">>)

\* The permission test of update_task, as written.
update_forbidden(current_user, task) ==
    /\ (current_user.role = "CLIENT"
          /\ task.clientId # current_user.user_id)
    /\ (current_user.role = "TASKER"
          /\ StrOf(task.taskerId) # current_user.user_id)

\* The SET list update_task builds: the fields whose patch value is truthy
\* (isUrgent: whose value is not None).
update_fields(request) ==
    {f \in {"title", "description"} : TruthyStr(request[f])}
    \cup {f \in {"scheduledAt", "durationEstMins", "priceGHS"} :
             TruthyNum(request[f])}
    \cup {f \in {"priority", "status"} : TruthyStr(request[f])}
    \cup {f \in {"isUrgent"} : request[f] # None}

\* Variant: the empty SET list is not refused.
no_fields_unchecked(request) == FALSE

\* "if not update_fields"
no_fields(request) == update_fields(request) = {}

\* Variant: a clientId in the body is written as well.
apply_update_with_owner(task, request, t) ==
    [f \in DOMAIN task |->
        IF f \in update_fields(request) THEN request[f][1]
        ELSE IF f = "updatedAt" THEN Some(t)
        ELSE IF f = "clientId" /\ request.extra.clientId # None
        THEN request.extra.clientId[1]
        ELSE task[f]]

\* Variant: a task that is COMPLETED or CANCELLED keeps its status.
apply_update_keep_terminal(task, request, t) ==
    [f \in DOMAIN task |->
        IF f = "status" /\ task.status \in {"COMPLETED", "CANCELLED"}
        THEN task[f]
        ELSE IF f \in update_fields(request) THEN request[f][1]
        ELSE IF f = "updatedAt" THEN Some(t)
        ELSE task[f]]

\* UPDATE tasks SET <update_fields>, "updatedAt" = NOW() WHERE id = :task_id
apply_update(task, request, t) ==
    [f \in DOMAIN task |->
        IF f \in update_fields(request) THEN request[f][1]
        ELSE IF f = "updatedAt" THEN Some(t)
        ELSE task[f]]

\* PUT /tasks/{task_id}
update_task(cred, task_id, request) ==
    /\ nops < MaxOps
    /\ nops' = nops + 1
    /\ UNCHANGED <<now, conc, auth>>
    /\ IF ~verify_token(cred)
         THEN /\ Respond("update", cred, task_id, request,
                         HTTP_401_UNAUTHORIZED, <<>>)
              /\ UNCHANGED tasks
         ELSE IF fetchone(tasks, task_id) = None
         THEN /\ Respond("update", cred, task_id, request, HTTP_404_NOT_FOUND,
                         <<"SELECT">>)
              /\ UNCHANGED tasks
         ELSE IF update_forbidden(get_current_user(cred),
                                  fetchone(tasks, task_id)[1])
         THEN /\ Respond("update", cred, task_id, request, HTTP_403_FORBIDDEN,
                         <<"SELECT">>)
              /\ UNCHANGED tasks
         ELSE IF no_fields(request)
         THEN /\ Respond("update", cred, task_id, request,
                         HTTP_400_BAD_REQUEST, <<"SELECT">>)
              /\ UNCHANGED tasks
         ELSE /\ tasks' = [tasks EXCEPT
                     ![task_id] = apply_update(@, request, now)]
              /\ Respond("update", cred, task_id, request, OK,
                         <<"SELECT", "UPDATE">>)

\* Variant: the row is removed instead of marked.
apply_cancel_hard(store, task_id, t) ==
    [i \in 1 .. (Len(store) - 1) |->
        IF i < task_id THEN store[i] ELSE store[i + 1]]

\* UPDATE tasks SET status = 'CANCELLED', "updatedAt" = NOW() WHERE id = ..
apply_cancel(store, task_id, t) ==
    [store EXCEPT ![task_id] = [@ EXCEPT !.status = "CANCELLED",
                                         !.updatedAt = Some(t)]]

\* Variant: a task that is COMPLETED or CANCELLED cannot be cancelled.
delete_forbidden_when_done(current_user, task) ==
    \/ task.clientId # current_user.user_id
    \/ task.status \in {"COMPLETED", "CANCELLED"}

\* The permission test of delete_task, as written.
delete_forbidden(current_user, task) ==
    task.clientId # current_user.user_id

\* DELETE /tasks/{task_id}
delete_task(cred, task_id) ==
    /\ nops < MaxOps
    /\ nops' = nops + 1
    /\ UNCHANGED <<now, conc, auth>>
    /\ IF ~verify_token(cred)
         THEN /\ Respond("cancel", cred, task_id, NoReq, HTTP_401_UNAUTHORIZED,
                         <<>>)
              /\ UNCHANGED tasks
         ELSE IF fetchone(tasks, task_id) = None
         THEN /\ Respond("cancel", cred, task_id, NoReq, HTTP_404_NOT_FOUND,
                         <<"SELECT">>)
              /\ UNCHANGED tasks
         ELSE IF delete_forbidden(get_current_user(cred),
                                  fetchone(tasks, task_id)[1])
         THEN /\ Respond("cancel", cred, task_id, NoReq, HTTP_403_FORBIDDEN,
                         <<"SELECT">>)
              /\ UNCHANGED tasks
         ELSE /\ tasks' = apply_cancel(tasks, task_id, now)
              /\ Respond("cancel", cred, task_id, NoReq, OK,
                         <<"SELECT", "UPDATE">>)

\* Variant: reading a task stamps it.
get_task_touching(task_id) ==
    /\ nops < MaxOps
    /\ nops' = nops + 1
    /\ UNCHANGED <<now, conc, auth>>
    /\ IF fetchone(tasks, task_id) = None
         THEN /\ RespondWith("get", BadToken, task_id, NoReq,
                             HTTP_404_NOT_FOUND, <<"SELECT">>, <<>>)
              /\ UNCHANGED tasks
         ELSE /\ RespondWith("get", BadToken, task_id, NoReq, OK,
                             <<"SELECT">>, fetchone(tasks, task_id))
              /\ tasks' = [tasks EXCEPT ![task_id].updatedAt = Some(now)]

\* GET /tasks/{task_id}: no credential is read.
get_task(task_id) ==
    /\ nops < MaxOps
    /\ nops' = nops + 1
    /\ UNCHANGED <<tasks, now, conc, auth>>
    /\ IF fetchone(tasks, task_id) = None
         THEN RespondWith("get", BadToken, task_id, NoReq, HTTP_404_NOT_FOUND,
                          <<"SELECT">>, <<>>)
         ELSE RespondWith("get", BadToken, task_id, NoReq, OK,
                          <<"SELECT">>, fetchone(tasks, task_id))

\* The conditions get_tasks appends: one per filter field that is truthy
\* (isUrgent: that is not None).
conditions(filter) ==
    {f \in {"status", "clientId", "taskerId", "priority"} :
        TruthyStr(filter[f])}
    \cup {f \in {"minPrice", "maxPrice"} : TruthyNum(filter[f])}
    \cup {f \in {"isUrgent"} : filter[f] # None}

\* One condition of the WHERE clause on one row (a NULL column equals
\* nothing).
condition_holds(row, filter, f) ==
    CASE f = "minPrice" -> row.priceGHS >= filter[f][1]
      [] f = "maxPrice" -> row.priceGHS <= filter[f][1]
      [] f = "taskerId" -> row.taskerId = filter[f]
      [] OTHER -> row[f] = filter[f][1]

\* WHERE <conditions joined by AND>, or 1=1.
where_clause(row, filter) ==
    \A f \in conditions(filter) : condition_holds(row, filter, f)

\* The ids of the rows the WHERE clause selects.
matching(store, filter) ==
    {id \in DOMAIN store : where_clause(store[id], filter)}

\* ORDER BY "createdAt" DESC: every arrangement of the ids with creation
\* times not increasing; rows of equal creation time come in any order.
order_by_created_desc(store, ids) ==
    {ord \in [1 .. Cardinality(ids) -> ids] :
        /\ \A i, j \in DOMAIN ord : i # j => ord[i] # ord[j]
        /\ \A i, j \in DOMAIN ord :
              i < j => store[ord[i]].createdAt >= store[ord[j]].createdAt}

\* Variant: pages counted from zero.
offset_of_zero_based(page, limit) == page * limit

\* params["offset"] = (page - 1) * limit
offset_of(page, limit) == (page - 1) * limit

\* LIMIT :limit OFFSET :offset on an ordered result.
limit_offset(ord, limit, offset) ==
    [k \in 1 .. (IF Len(ord) - offset < 0 THEN 0
                 ELSE IF Len(ord) - offset < limit THEN Len(ord) - offset
                 ELSE limit) |-> ord[offset + k]]

\* tasks_query: the page of rows.
tasks_query(store, filter, page, limit, ord) ==
    [k \in DOMAIN limit_offset(ord, limit, offset_of(page, limit)) |->
        store[limit_offset(ord, limit, offset_of(page, limit))[k]]]

\* count_query: SELECT COUNT(*) with the same WHERE clause.
count_query(store, filter) == Cardinality(matching(store, filter))

\* The body get_tasks returns.
list_response(data, total, page, limit) ==
    [data |-> data, total |-> total, page |-> page, limit |-> limit,
     totalPages |-> (total + limit - 1) \div limit]

\* GET /tasks: both queries run on the same store when nothing else runs.
get_tasks(filter, page, limit) ==
    /\ nops < MaxOps
    /\ nops' = nops + 1
    /\ UNCHANGED <<tasks, now, conc, auth>>
    /\ \E ord \in order_by_created_desc(tasks, matching(tasks, filter)) :
          RespondWith("list", BadToken, 0,
                      [filter |-> filter, page |-> page, limit |-> limit],
                      OK, <<"SELECT", "COUNT">>,
                      list_response(
                          tasks_query(tasks, filter, page, limit, ord),
                          count_query(tasks, filter), page, limit))

\* Time passes between two requests: NOW() and the createdAt default grow.
Tick ==
    /\ now < MaxTime
    /\ now' = now + 1
    /\ UNCHANGED <<tasks, nops, last, conc, auth>>

Init ==
    /\ tasks \in SeedStores
    /\ now = 0
    /\ nops = 0
    /\ last = [op |-> "none", code |-> OK, id |-> 0, cred |-> BadToken,
               req |-> NoReq, db |-> <<>>, res |-> <<>>]
    /\ conc = NoConc
    /\ otp_storage = <<>>
    /\ users = {}

Next ==
    \/ \E cred \in Credentials, request \in Drafts :
           create_task(cred, request)
    \/ \E cred \in Credentials, task_id \in TaskIds, request \in Patches :
           update_task(cred, task_id, request)
    \/ \E cred \in Credentials, task_id \in TaskIds :
           delete_task(cred, task_id)
    \/ Tick

Spec == Init /\ [][Next]_vars

\* The requests of the task's own client, and two patches that write.
OwnerClient == [valid |-> TRUE, sub |-> "u1", role |-> "CLIENT"]

FewPatches ==
    {[EmptyPatch EXCEPT !.status = Some("COMPLETED")],
     [EmptyPatch EXCEPT !.priceGHS = Some(500)]}

\* The service with every credential and every draft on POST /tasks, and
\* the owner's updates and cancellations in between.
NextCreate ==
    \/ \E cred \in Credentials, request \in Drafts :
           create_task(cred, request)
    \/ \E task_id \in TaskIds, request \in FewPatches :
           update_task(OwnerClient, task_id, request)
    \/ \E task_id \in TaskIds :
           delete_task(OwnerClient, task_id)
    \/ Tick

SpecCreate == Init /\ [][NextCreate]_vars

\* Two drafts that pass validation and one that does not.
FewDrafts ==
    {d \in Drafts :
        /\ d.title = Title5
        /\ d.extra = NoExtra
        /\ \/ d.description = Desc20
           \/ d.priceGHS = 1000}

\* Browsing: every filter, page and limit on GET /tasks over the stores a
\* few writes produce.
NextList ==
    \/ \E cred \in {OwnerClient, BadToken}, request \in FewDrafts :
           create_task(cred, request)
    \/ \E task_id \in TaskIds, request \in FewPatches :
           update_task(OwnerClient, task_id, request)
    \/ \E task_id \in TaskIds :
           delete_task(OwnerClient, task_id)
    \/ \E task_id \in TaskIds :
           get_task(task_id)
    \/ \E filter \in Filters, page \in Pages, limit \in Limits :
           get_tasks(filter, page, limit)
    \/ Tick

SpecList == Init /\ [][NextList]_vars

\* Patches for every outcome of PUT: empty, falsy only, one field, two
\* fields, and one that also names another owner.
MidPatches ==
    {EmptyPatch,
     [EmptyPatch EXCEPT !.title = Some("")],
     [EmptyPatch EXCEPT !.status = Some("CREATED")],
     [EmptyPatch EXCEPT !.status = Some("CANCELLED")],
     [EmptyPatch EXCEPT !.priceGHS = Some(3000)],
     [EmptyPatch EXCEPT !.title = Some("wxyz"), !.priceGHS = Some(0)],
     [EmptyPatch EXCEPT !.isUrgent = Some(TRUE), !.extra = OtherOwner]}

\* Every credential on every writing endpoint, with the reads in between.
NextUpdate ==
    \/ \E cred \in Credentials, request \in FewDrafts :
           create_task(cred, request)
    \/ \E cred \in Credentials, task_id \in TaskIds,
          request \in MidPatches :
           update_task(cred, task_id, request)
    \/ \E cred \in Credentials, task_id \in TaskIds :
           delete_task(cred, task_id)
    \/ \E task_id \in TaskIds :
           get_task(task_id)
    \/ \E limit \in Limits :
           get_tasks(NoFilter, 1, limit)
    \/ Tick

SpecUpdate == Init /\ [][NextUpdate]_vars

\* The tasker the stored task is assigned to.
AssignedTasker == [valid |-> TRUE, sub |-> "u2", role |-> "TASKER"]

\* One patch per value of TaskStatus.
StatusPatches ==
    {[EmptyPatch EXCEPT !.status = Some(s)] : s \in TaskStatus}

\* The life of a task: its client and its tasker write any status, and they
\* cancel it.
NextStatus ==
    \/ \E request \in FewDrafts :
           create_task(OwnerClient, request)
    \/ \E cred \in {OwnerClient, AssignedTasker}, task_id \in TaskIds,
          request \in StatusPatches :
           update_task(cred, task_id, request)
    \/ \E cred \in {OwnerClient, AssignedTasker}, task_id \in TaskIds :
           delete_task(cred, task_id)
    \/ Tick

SpecStatus == Init /\ [][NextStatus]_vars

\* A draft that passes validation.
TiedDraft ==
    [title |-> Title5, description |-> Desc20, scheduledAt |-> 5,
     durationEstMins |-> 30, priceGHS |-> 1010, priority |-> "MEDIUM",
     isUrgent |-> FALSE, extra |-> NoExtra]

\* The store after a POST /tasks at the creation time of the stored task:
\* two rows with the same createdAt.
TiedStore ==
    <<SeedTask,
      task_data(TiedDraft, get_current_user(OwnerClient), 2,
                SeedTask.createdAt)>>

InitPages ==
    /\ tasks \in {<<SeedTask>>, TiedStore}
    /\ now = 0
    /\ nops = 0
    /\ last = [op |-> "none", code |-> OK, id |-> 0, cred |-> BadToken,
               req |-> NoReq, db |-> <<>>, res |-> <<>>]
    /\ conc = NoConc
    /\ otp_storage = <<>>
    /\ users = {}

\* Paging through a listing, page after page, with the writes that may come
\* in between.
NextPages ==
    \/ \E request \in FewDrafts :
           create_task(OwnerClient, request)
    \/ \E task_id \in TaskIds :
           delete_task(OwnerClient, task_id)
    \/ \E filter \in {NoFilter, [NoFilter EXCEPT !.clientId = Some("u1")]},
          page \in Pages, limit \in Limits :
           get_tasks(filter, page, limit)
    \/ Tick

SpecPages == InitPages /\ [][NextPages]_vars

\* durationEstMins: int, with no validator: drafts and patches with a
\* negative, a zero and a positive estimate.
DurationDrafts ==
    {[TiedDraft EXCEPT !.durationEstMins = m] : m \in {0 - 5, 0, 30}}
    \cup {[TiedDraft EXCEPT !.priceGHS = 999]}

DurationPatches ==
    {[EmptyPatch EXCEPT !.durationEstMins = Some(m)] : m \in {0 - 5, 0, 45}}

\* A client creating tasks and changing their estimates.
NextDuration ==
    \/ \E request \in DurationDrafts :
           create_task(OwnerClient, request)
    \/ \E task_id \in TaskIds, request \in DurationPatches :
           update_task(OwnerClient, task_id, request)
    \/ \E task_id \in TaskIds :
           delete_task(OwnerClient, task_id)
    \/ Tick

SpecDuration == Init /\ [][NextDuration]_vars

(* ------------------------- concurrent updates -------------------------- *)

Procs == 1 .. MaxProcs

\* Patches that write the same field, and patches that write different ones.
ConcPatches ==
    {EmptyPatch,
     [EmptyPatch EXCEPT !.status = Some("COMPLETED")],
     [EmptyPatch EXCEPT !.status = Some("DISPUTED")],
     [EmptyPatch EXCEPT !.priceGHS = Some(3000)],
     [EmptyPatch EXCEPT !.title = Some("wxyz"), !.priceGHS = Some(500)]}

\* The number of UPDATE statements executed so far.
writes_done == Cardinality({p \in DOMAIN conc : conc[p].pc = "done"})

\* Variant: the row read by the SELECT is written back with the patch.
write_row_from_snapshot(current, snapshot, request, t) ==
    apply_update(snapshot, request, t)

\* The UPDATE names only the patched columns, so it acts on the row as it is
\* when the statement runs, not on the row the SELECT returned.
write_row(current, snapshot, request, t) ==
    apply_update(current, request, t)

\* update_task up to the UPDATE: the dependency, the SELECT and the checks.
update_read(p, cred, task_id, request) ==
    /\ p \notin DOMAIN conc
    /\ UNCHANGED <<tasks, now, nops, auth>>
    /\ IF ~verify_token(cred)
         THEN /\ Respond("update", cred, task_id, request,
                         HTTP_401_UNAUTHORIZED, <<>>)
              /\ conc' = (p :> [pc |-> "rejected"]) @@ conc
         ELSE IF fetchone(tasks, task_id) = None
         THEN /\ Respond("update", cred, task_id, request, HTTP_404_NOT_FOUND,
                         <<"SELECT">>)
              /\ conc' = (p :> [pc |-> "rejected"]) @@ conc
         ELSE IF update_forbidden(get_current_user(cred),
                                  fetchone(tasks, task_id)[1])
         THEN /\ Respond("update", cred, task_id, request, HTTP_403_FORBIDDEN,
                         <<"SELECT">>)
              /\ conc' = (p :> [pc |-> "rejected"]) @@ conc
         ELSE IF no_fields(request)
         THEN /\ Respond("update", cred, task_id, request,
                         HTTP_400_BAD_REQUEST, <<"SELECT">>)
              /\ conc' = (p :> [pc |-> "rejected"]) @@ conc
         ELSE /\ conc' = (p :> [pc |-> "write", cred |-> cred,
                                 task_id |-> task_id, request |-> request,
                                 task |-> fetchone(tasks, task_id)[1],
                                 order |-> 0, at |-> 0]) @@ conc
              /\ UNCHANGED last

\* update_task from the UPDATE on: one atomic statement and the answer.
update_write(p) ==
    /\ p \in DOMAIN conc
    /\ conc[p].pc = "write"
    /\ UNCHANGED <<now, nops, auth>>
    /\ tasks' = [tasks EXCEPT ![conc[p].task_id] =
                    write_row(@, conc[p].task, conc[p].request, now)]
    /\ conc' = [conc EXCEPT ![p].pc = "done",
                            ![p].order = writes_done + 1,
                            ![p].at = now]
    /\ Respond("update", conc[p].cred, conc[p].task_id, conc[p].request, OK,
               <<"SELECT", "UPDATE">>)

\* One stored task and no request yet.
InitConc ==
    /\ tasks = <<SeedTask>>
    /\ now = 0
    /\ nops = 0
    /\ last = [op |-> "none", code |-> OK, id |-> 0, cred |-> BadToken,
               req |-> NoReq, db |-> <<>>, res |-> <<>>]
    /\ conc = NoConc
    /\ otp_storage = <<>>
    /\ users = {}

NextConc ==
    \/ \E p \in Procs, cred \in {OwnerClient, BadToken},
          task_id \in TaskIds, request \in ConcPatches :
           update_read(p, cred, task_id, request)
    \/ \E p \in Procs : update_write(p)
    \/ Tick

SpecConc == InitConc /\ [][NextConc]_vars

(* ---------------------- listing during writes -------------------------- *)

\* Listings of everything and of the tasks still CREATED.
ConcFilters == {NoFilter, [NoFilter EXCEPT !.status = Some("CREATED")]}

\* get_tasks up to the first statement: tasks_query runs on the store as it
\* is now.  `read_from` remembers that store.
list_read(p, filter, page, limit) ==
    /\ p \notin DOMAIN conc
    /\ UNCHANGED <<tasks, now, nops, last, auth>>
    /\ \E ord \in order_by_created_desc(tasks, matching(tasks, filter)) :
          conc' = (p :> [pc |-> "count", filter |-> filter, page |-> page,
                         limit |-> limit,
                         data |-> tasks_query(tasks, filter, page, limit, ord),
                         read_from |-> tasks,
                         res |-> <<>>]) @@ conc

\* get_tasks from the second statement on: count_query runs on the store as
\* it is by then (each statement of the session sees the rows committed
\* before it starts), and the body is returned.
list_count(p) ==
    /\ p \in DOMAIN conc
    /\ conc[p].pc = "count"
    /\ UNCHANGED <<tasks, now, nops, auth>>
    /\ conc' = [conc EXCEPT
                  ![p].pc = "done",
                  ![p].res = list_response(conc[p].data,
                                 count_query(tasks, conc[p].filter),
                                 conc[p].page, conc[p].limit)]
    /\ RespondWith("list", BadToken, 0,
                   [filter |-> conc[p].filter, page |-> conc[p].page,
                    limit |-> conc[p].limit],
                   OK, <<"SELECT", "COUNT">>, conc'[p].res)

\* Listings in flight while a client creates, changes and cancels tasks.
NextListConc ==
    \/ \E p \in Procs, filter \in ConcFilters, limit \in {1, MaxLimit} :
           list_read(p, filter, 1, limit)
    \/ \E p \in Procs : list_count(p)
    \/ \E request \in FewDrafts :
           create_task(OwnerClient, request)
    \/ \E task_id \in TaskIds, request \in FewPatches :
           update_task(OwnerClient, task_id, request)
    \/ \E task_id \in TaskIds :
           delete_task(OwnerClient, task_id)
    \/ Tick

SpecListConc == Init /\ [][NextListConc]_vars

(* --------------------------- one-time codes ---------------------------- *)

\* Requests to the authentication endpoints in one run.
MaxAuthOps == 3

HTTP_500_INTERNAL_SERVER_ERROR == "HTTP_500_INTERNAL_SERVER_ERROR"

\* A phone number is the sequence of its characters.
Digits == {"0", "1", "2", "3", "4", "5", "6", "7", "8", "9"}

IsDigit(c) == c \in Digits

startswith(s, prefix) ==
    Len(s) >= Len(prefix) /\ SubSeq(s, 1, Len(prefix)) = prefix

\* format_phone_number: the digits, with the country code put in front.
format_phone_number(phone) ==
    LET digits == SelectSeq(phone, IsDigit)
    IN  IF startswith(digits, <<"2", "3", "3">>)
        THEN <<"+">> \o digits
        ELSE IF startswith(digits, <<"0">>)
        THEN <<"+", "2", "3", "3">> \o Tail(digits)
        ELSE IF Len(digits) = 9
        THEN <<"+", "2", "3", "3">> \o digits
        ELSE phone

\* re.match(r'^\+233\d{9}$', phone)
matches_ghana(phone) ==
    /\ Len(phone) = 13
    /\ SubSeq(phone, 1, 4) = <<"+", "2", "3", "3">>
    /\ \A i \in 5 .. 13 : IsDigit(phone[i])

\* PhoneAuthRequest.validate_phone: the formatted number, or a ValueError
\* (None).
validate_phone(v) ==
    IF matches_ghana(format_phone_number(v))
    THEN Some(format_phone_number(v)) ELSE None

\* One number in its international, its national and its bare form, a second
\* number, and a text that is no Ghana number.
Intl1 == <<"+", "2", "3", "3", "2", "4", "1", "2", "3", "4", "5", "6", "7">>

Local1 == <<"0", "2", "4", "1", "2", "3", "4", "5", "6", "7">>

Bare1 == <<"2", "4", "1", "2", "3", "4", "5", "6", "7">>

Intl2 == <<"+", "2", "3", "3", "2", "0", "1", "1", "1", "1", "1", "1", "1">>

NoPhone == <<"1", "2", "3">>

RequestPhones == {Intl1, Local1, Bare1, Intl2, NoPhone}

\* OTPVerificationRequest.phone and RegistrationRequest.phone are plain
\* strings, with no validator.
VerifyPhones == {Intl1, Local1, Intl2}

\* generate_otp(): six random digits.
Otps == {"123456", "654321"}

\* The codes a caller may send: the issued ones and the empty string.
SentOtps == Otps \cup {""}

\* Variant: a used code stays stored.
remove_otp_keep(storage, phone) == storage

\* del otp_storage[request.phone]
remove_otp(storage, phone) ==
    [q \in DOMAIN storage \ {phone} |-> storage[q]]

\* "if not stored_otp or stored_otp != request.otp", with
\* stored_otp = otp_storage.get(request.phone)
otp_rejected(storage, phone, otp) ==
    \/ phone \notin DOMAIN storage
    \/ storage[phone] = ""
    \/ storage[phone] # otp

\* SELECT * FROM users WHERE phone = :phone, then fetchone() is truthy.
user_exists(table, phone) == \E u \in table : u.phone = phone

\* POST /auth/request-otp
request_otp(phone, otp) ==
    /\ nops < MaxAuthOps
    /\ nops' = nops + 1
    /\ UNCHANGED <<tasks, now, conc, users>>
    /\ IF validate_phone(phone) = None
         THEN /\ Respond("request_otp", BadToken, 0, [phone |-> phone],
                         ValueError, <<>>)
              /\ UNCHANGED otp_storage
         ELSE /\ otp_storage' =
                     (validate_phone(phone)[1] :> otp) @@ otp_storage
              /\ RespondWith("request_otp", BadToken, 0, [phone |-> phone],
                             OK, <<"SELECT">>,
                             [phone |-> validate_phone(phone)[1],
                              userExists |->
                                  user_exists(users,
                                              validate_phone(phone)[1])])

\* POST /auth/verify-otp
verify_otp(phone, otp) ==
    /\ nops < MaxAuthOps
    /\ nops' = nops + 1
    /\ UNCHANGED <<tasks, now, conc, users>>
    /\ IF otp_rejected(otp_storage, phone, otp)
         THEN /\ Respond("verify_otp", BadToken, 0,
                         [phone |-> phone, otp |-> otp],
                         HTTP_400_BAD_REQUEST, <<>>)
              /\ UNCHANGED otp_storage
         ELSE /\ otp_storage' = remove_otp(otp_storage, phone)
              /\ RespondWith("verify_otp", BadToken, 0,
                             [phone |-> phone, otp |-> otp], OK, <<>>,
                             [phone |-> phone])

\* POST /auth/register.  `inserted` is whether the INSERT and the commit
\* went through; an exception there is answered with 500.
register(phone, otp, role, inserted) ==
    /\ nops < MaxAuthOps
    /\ nops' = nops + 1
    /\ UNCHANGED <<tasks, now, conc>>
    /\ IF otp_rejected(otp_storage, phone, otp)
         THEN /\ Respond("register", BadToken, 0,
                         [phone |-> phone, otp |-> otp, role |-> role],
                         HTTP_400_BAD_REQUEST, <<>>)
              /\ UNCHANGED <<otp_storage, users>>
         ELSE IF user_exists(users, phone)
         THEN /\ Respond("register", BadToken, 0,
                         [phone |-> phone, otp |-> otp, role |-> role],
                         HTTP_400_BAD_REQUEST, <<"SELECT">>)
              /\ UNCHANGED <<otp_storage, users>>
         ELSE IF ~inserted
         THEN /\ Respond("register", BadToken, 0,
                         [phone |-> phone, otp |-> otp, role |-> role],
                         HTTP_500_INTERNAL_SERVER_ERROR, <<"SELECT">>)
              /\ UNCHANGED <<otp_storage, users>>
         ELSE /\ users' = users \cup {[phone |-> phone, role |-> role]}
              /\ otp_storage' = remove_otp(otp_storage, phone)
              /\ RespondWith("register", BadToken, 0,
                             [phone |-> phone, otp |-> otp, role |-> role],
                             OK, <<"SELECT", "INSERT">>,
                             [phone |-> phone, role |-> role])

\* No code stored, no user, no task.
InitAuth ==
    /\ tasks = <<>>
    /\ now = 0
    /\ nops = 0
    /\ last = [op |-> "none", code |-> OK, id |-> 0, cred |-> BadToken,
               req |-> NoReq, db |-> <<>>, res |-> <<>>]
    /\ conc = NoConc
    /\ otp_storage = <<>>
    /\ users = {}

NextAuth ==
    \/ \E phone \in RequestPhones, otp \in Otps :
           request_otp(phone, otp)
    \/ \E phone \in VerifyPhones, otp \in SentOtps :
           verify_otp(phone, otp)
    \/ \E phone \in VerifyPhones, otp \in SentOtps, inserted \in BOOLEAN :
           register(phone, otp, "CLIENT", inserted)

SpecAuth == InitAuth /\ [][NextAuth]_vars

(* ------------------------------ properties ----------------------------- *)

\* A step that is one request to the named endpoint.
Did(op) == nops' = nops + 1 /\ last'.op = op

\* The error kinds of the service: a validator's ValueError and an explicit
\* 400 are both a BadRequest.
BadRequest(code) == code \in {ValueError, HTTP_400_BAD_REQUEST}

Forbidden(code) == code = HTTP_403_FORBIDDEN

\* A patch with at least one field that is not None.
NonEmptyPatch(request) == \E f \in PatchFields : request[f] # None

Terminal == {"COMPLETED", "CANCELLED"}

\* C1: createTask succeeds only for a CLIENT: for an authenticated TASKER or
\* ADMIN and an otherwise valid draft it fails with Forbidden and the task
\* store is unchanged.
C1_CreateOnlyByClient ==
    [][(/\ Did("create")
        /\ last'.cred.valid
        /\ last'.cred.role \in {"TASKER", "ADMIN"}
        /\ TaskCreateRequestValid(last'.req))
       => (Forbidden(last'.code) /\ tasks' = tasks)]_vars

\* C2: on an existing task and with a non-empty patch, updateTask by a CLIENT
\* who is not the task's client fails with Forbidden and leaves the task
\* unchanged, and by the CLIENT who is the task's client it succeeds.
C2_UpdateByClientOwnerOnly ==
    [][(/\ Did("update")
        /\ last'.cred.valid
        /\ last'.cred.role = "CLIENT"
        /\ Exists(last'.id)
        /\ NonEmptyPatch(last'.req))
       => IF last'.cred.sub = tasks[last'.id].clientId
          THEN last'.code = OK
          ELSE Forbidden(last'.code) /\ tasks' = tasks]_vars

\* C3: on an existing task and with a non-empty patch, updateTask by a TASKER
\* who is not the task's tasker (also when the task has none) fails with
\* Forbidden and leaves the task unchanged, and by the assigned TASKER it
\* succeeds.
C3_UpdateByAssignedTaskerOnly ==
    [][(/\ Did("update")
        /\ last'.cred.valid
        /\ last'.cred.role = "TASKER"
        /\ Exists(last'.id)
        /\ NonEmptyPatch(last'.req))
       => IF tasks[last'.id].taskerId = Some(last'.cred.sub)
          THEN last'.code = OK
          ELSE Forbidden(last'.code) /\ tasks' = tasks]_vars

\* C4: cancelTask changes a task only for a CLIENT caller whose subject id is
\* the task's clientId; for every other authenticated caller, also a TASKER
\* or ADMIN with that subject id, it fails with Forbidden and leaves the task
\* unchanged, whatever the task's status.
C4_CancelByOwningClientOnly ==
    [][(/\ Did("cancel")
        /\ last'.cred.valid
        /\ Exists(last'.id)
        /\ ~(/\ last'.cred.role = "CLIENT"
             /\ last'.cred.sub = tasks[last'.id].clientId))
       => (Forbidden(last'.code) /\ tasks' = tasks)]_vars

\* C5: updateTask by an ADMIN is rejected with Forbidden for every task and
\* every patch, and the task is unchanged.
C5_UpdateByAdminForbidden ==
    [][(/\ Did("update")
        /\ last'.cred.valid
        /\ last'.cred.role = "ADMIN"
        /\ Exists(last'.id))
       => (Forbidden(last'.code) /\ tasks' = tasks)]_vars

\* C6: in every reachable state every stored task has price >= 10.00.
C6_PriceAtLeastMinimum ==
    \A id \in DOMAIN tasks : tasks[id].priceGHS >= MinPrice

\* C7: after a successful createTask the stored platform fee is exactly 5% of
\* the draft's price, whatever fee the body tried to supply.
C7_FeeIsFivePercent ==
    (last.op = "create" /\ last.code = OK)
    => /\ tasks[last.id].priceGHS = last.req.priceGHS
       /\ tasks[last.id].platformFeeGHS * 100
             = last.req.priceGHS * 5 * FeeScale

\* A task was created at a price whose 5% is not a whole minor unit, from a
\* body that carried a fee of its own.
C7_Witness ==
    /\ last.op = "create"
    /\ last.code = OK
    /\ last.req.priceGHS = 1010
    /\ last.req.extra.platformFeeGHS # None
    /\ tasks[last.id].platformFeeGHS = 5050

\* C8: once a task's status is COMPLETED or CANCELLED no later operation
\* changes it.
C8_TerminalStatusAbsorbing ==
    [][\A id \in DOMAIN tasks :
          tasks[id].status \in Terminal
          => tasks'[id].status = tasks[id].status]_vars

\* C9: createTask by a client with a title under 5 characters, a description
\* under 20 characters or a price under 10.00 is rejected as a BadRequest
\* with no statement executed and the store unchanged; any other draft, the
\* boundary values included, succeeds and appends exactly one task.
C9_CreateValidation ==
    [][(/\ Did("create")
        /\ last'.cred.valid
        /\ last'.cred.role = "CLIENT")
       => IF \/ Len(last'.req.title) < 5
             \/ Len(last'.req.description) < 20
             \/ last'.req.priceGHS < 1000
          THEN /\ BadRequest(last'.code)
               /\ last'.db = <<>>
               /\ tasks' = tasks
          ELSE /\ last'.code = OK
               /\ Len(tasks') = Len(tasks) + 1
               /\ SubSeq(tasks', 1, Len(tasks)) = tasks
               /\ tasks'[Len(tasks')].title = last'.req.title
               /\ tasks'[Len(tasks')].priceGHS = last'.req.priceGHS]_vars

\* A client created a task from the draft with the 5-character title, the
\* 20-character description and the price 10.00.
C9_Witness ==
    /\ last.op = "create"
    /\ last.code = OK
    /\ last.cred.role = "CLIENT"
    /\ Len(last.req.title) = 5
    /\ Len(last.req.description) = 20
    /\ last.req.priceGHS = 1000
    /\ Len(tasks) >= 1

\* C10: every task createTask produces has status CREATED and the caller's
\* subject id as clientId, whatever the body contains.
C10_CreateForcesStatusAndOwner ==
    (last.op = "create" /\ last.code = OK)
    => /\ tasks[last.id].status = "CREATED"
       /\ tasks[last.id].clientId = last.cred.sub

\* A task was created by u1 from a body naming another status and owner.
C10_Witness ==
    /\ last.op = "create"
    /\ last.code = OK
    /\ last.cred.sub = "u1"
    /\ last.req.extra.status = Some("COMPLETED")
    /\ last.req.extra.clientId = Some("u2")
    /\ tasks[last.id].clientId = "u1"

\* The caller may update the task by the service's rule: its client, or its
\* assigned tasker.
MayUpdate(cred, task) ==
    \/ cred.role = "CLIENT" /\ cred.sub = task.clientId
    \/ cred.role = "TASKER" /\ task.taskerId = Some(cred.sub)

\* C11: no step changes the clientId of a stored task.
C11_ClientIdImmutable ==
    [][\A id \in DOMAIN tasks :
          /\ id \in DOMAIN tasks'
          /\ tasks'[id].clientId = tasks[id].clientId]_vars

\* A task of u1 was updated from a body that names u2 as its owner.
C11_Witness ==
    /\ last.op = "update"
    /\ last.code = OK
    /\ last.req.extra.clientId = Some("u2")
    /\ tasks[last.id].clientId = "u1"

C13_EmptyPatchRejected ==
    [][(/\ Did("update")
        /\ last'.cred.valid
        /\ Exists(last'.id)
        /\ MayUpdate(last'.cred, tasks[last'.id])
        /\ ~NonEmptyPatch(last'.req))
       => /\ last'.code = HTTP_400_BAD_REQUEST
          /\ \A i \in DOMAIN last'.db : last'.db[i] # "UPDATE"
          /\ tasks' = tasks]_vars

\* The client of a task sent a patch with every field null and got 400.
C13_Witness ==
    /\ last.op = "update"
    /\ last.code = HTTP_400_BAD_REQUEST
    /\ ~NonEmptyPatch(last.req)
    /\ Exists(last.id)
    /\ last.cred.role = "CLIENT"
    /\ last.cred.sub = tasks[last.id].clientId

\* C14: after a successful updateTask every field that is not null in the
\* patch holds the patch value, falsy values included, every other patch
\* field is unchanged, and updatedAt is stamped.
C14_UpdateWritesNonNullFields ==
    [][(Did("update") /\ last'.code = OK)
       => /\ \A f \in PatchFields :
                tasks'[last'.id][f] =
                   IF last'.req[f] # None THEN last'.req[f][1]
                   ELSE tasks[last'.id][f]
          /\ tasks'[last'.id].updatedAt = Some(now)]_vars

\* C15: a successful cancelTask sets the status to CANCELLED and stamps
\* updatedAt, changes nothing else in that task or in any other, and no step
\* ever removes a stored task.
C15_CancelIsSoft ==
    [][/\ (Did("cancel") /\ last'.code = OK)
          => /\ Len(tasks') = Len(tasks)
             /\ \A i \in DOMAIN tasks :
                   IF i = last'.id
                   THEN /\ tasks'[i].status = "CANCELLED"
                        /\ tasks'[i].updatedAt = Some(now)
                        /\ \A f \in DOMAIN tasks[i] \ {"status", "updatedAt"} :
                              tasks'[i][f] = tasks[i][f]
                   ELSE tasks'[i] = tasks[i]
       /\ {tasks[i].id : i \in DOMAIN tasks}
             \subseteq {tasks'[i].id : i \in DOMAIN tasks'}]_vars

\* A task was cancelled while another task is in the store.
C15_Witness ==
    /\ last.op = "cancel"
    /\ last.code = OK
    /\ Len(tasks) = 2
    /\ tasks[last.id].status = "CANCELLED"
    /\ tasks[last.id].updatedAt = Some(now)

\* The rows matching the last listing's WHERE clause that were created
\* later than row r, and those created no earlier.
NewerThan(r) ==
    {id \in matching(tasks, last.req.filter) :
        tasks[id].createdAt > r.createdAt}

NotOlderThan(r) ==
    {id \in matching(tasks, last.req.filter) :
        tasks[id].createdAt >= r.createdAt}

\* C16: listTasks returns the rows at positions (page-1)*limit+1 .. page*limit
\* of the matching set in descending creation time, total = the size of the
\* whole matching set, and totalPages = ceil(total/limit).
C16_ListPagination ==
    last.op = "list"
    => LET page == last.req.page
           limit == last.req.limit
           data == last.res.data
           total == Cardinality(matching(tasks, last.req.filter))
           first == (page - 1) * limit
           rest == IF total - first < 0 THEN 0 ELSE total - first
       IN  /\ last.res.total = total
           /\ last.res.totalPages * limit >= total
           /\ (last.res.totalPages - 1) * limit < total
           /\ Len(data) = IF rest < limit THEN rest ELSE limit
           /\ \A k \in DOMAIN data :
                 /\ data[k].id \in matching(tasks, last.req.filter)
                 /\ data[k] = tasks[data[k].id]
                 /\ Cardinality(NewerThan(data[k])) <= first + k - 1
                 /\ Cardinality(NotOlderThan(data[k])) >= first + k
           /\ \A j, k \in DOMAIN data : j # k => data[j].id # data[k].id

\* The second page of one row was listed out of two matching rows.
C16_Witness ==
    /\ last.op = "list"
    /\ last.req.page = 2
    /\ last.req.limit = 1
    /\ last.res.total = 2
    /\ Len(last.res.data) = 1
    /\ last.res.totalPages = 2

\* A row satisfies every filter field that was supplied (is not null).
SatisfiesSupplied(row, filter) ==
    /\ filter.status # None => row.status = filter.status[1]
    /\ filter.clientId # None => row.clientId = filter.clientId[1]
    /\ filter.taskerId # None => row.taskerId = filter.taskerId
    /\ filter.minPrice # None => row.priceGHS >= filter.minPrice[1]
    /\ filter.maxPrice # None => row.priceGHS <= filter.maxPrice[1]
    /\ filter.priority # None => row.priority = filter.priority[1]
    /\ filter.isUrgent # None => row.isUrgent = filter.isUrgent[1]

\* C17: the matching set of listTasks is exactly the tasks that satisfy every
\* supplied filter field, a minPrice or maxPrice of 0 included.
C17_FilterConjunction ==
    last.op = "list"
    => /\ \A k \in DOMAIN last.res.data :
             SatisfiesSupplied(last.res.data[k], last.req.filter)
       /\ last.res.total =
             Cardinality({id \in DOMAIN tasks :
                             SatisfiesSupplied(tasks[id], last.req.filter)})

\* C18: getTask, and updateTask and cancelTask by any authenticated caller,
\* on an id that is not stored answer NotFound and leave the store unchanged.
C18_MissingIdNotFound ==
    [][(/\ \/ Did("get")
           \/ (Did("update") \/ Did("cancel")) /\ last'.cred.valid
        /\ ~Exists(last'.id))
       => (last'.code = HTTP_404_NOT_FOUND /\ tasks' = tasks)]_vars

\* A non-empty patch for an id that is not stored, sent while another task
\* is stored, was answered with 404.
C18_Witness ==
    /\ last.op = "update"
    /\ last.code = HTTP_404_NOT_FOUND
    /\ NonEmptyPatch(last.req)
    /\ tasks # <<>>
    /\ ~Exists(last.id)

\* C19: createTask, updateTask and cancelTask with a credential that fails
\* verification answer Unauthenticated with no statement executed and the
\* store unchanged; listTasks and getTask of a stored id succeed with no
\* credential.
C19_Unauthenticated ==
    [][/\ (/\ Did("create") \/ Did("update") \/ Did("cancel")
           /\ ~last'.cred.valid)
          => /\ last'.code = HTTP_401_UNAUTHORIZED
             /\ last'.db = <<>>
             /\ tasks' = tasks
       /\ Did("list") => last'.code = OK
       /\ (Did("get") /\ Exists(last'.id)) => last'.code = OK]_vars

\* A rejected token was refused on a patch for a stored task.
C19_Witness ==
    /\ last.op = "update"
    /\ last.code = HTTP_401_UNAUTHORIZED
    /\ ~last.cred.valid
    /\ Exists(last.id)
    /\ NonEmptyPatch(last.req)
    /\ last.db = <<>>

\* The requests whose UPDATE has run and names column f.
Writers(f) ==
    {p \in DOMAIN conc :
        conc[p].pc = "done" /\ f \in update_fields(conc[p].request) \cup {"updatedAt"}}

\* Among them, the one whose UPDATE ran last.
LastWriter(f) ==
    CHOOSE p \in Writers(f) : \A q \in Writers(f) : conc[q].order <= conc[p].order

\* C20: under every interleaving of concurrent updateTask requests on a task,
\* each a read followed by one atomic write, every patched field holds the
\* value of the write that ran last among those naming it (so patches of
\* different fields are all kept), updatedAt is the stamp of the last write,
\* and every other field is as it was.
C20_FieldLevelLastWriterWins ==
    \A f \in DOMAIN SeedTask :
        tasks[1][f] =
           IF Writers(f) = {} THEN SeedTask[f]
           ELSE IF f = "updatedAt" THEN Some(conc[LastWriter(f)].at)
           ELSE conc[LastWriter(f)].request[f][1]

\* Two requests both read the task before either wrote; the patches name
\* different fields and both values are stored.
C20_Witness ==
    /\ DOMAIN conc = {1, 2}
    /\ conc[1].pc = "done" /\ conc[2].pc = "done"
    /\ conc[1].task = SeedTask /\ conc[2].task = SeedTask
    /\ conc[1].request.status = Some("COMPLETED")
    /\ conc[2].request.priceGHS = Some(3000)
    /\ tasks[1].status = "COMPLETED"
    /\ tasks[1].priceGHS = 3000

\* C21: getTask and listTasks leave the store as it is, and a getTask that
\* follows a getTask of the same id with no request in between gives the same
\* answer and the same data.
C21_ReadsAreIdempotent ==
    [][/\ (Did("get") \/ Did("list")) => tasks' = tasks
       /\ (last.op = "get" /\ Did("get") /\ last'.id = last.id)
          => /\ last'.code = last.code
             /\ last'.res = last.res]_vars

\* The second of two requests read the stored task, and no write has
\* happened.
C21_Witness ==
    /\ nops = 2
    /\ last.op = "get"
    /\ last.code = OK
    /\ last.res = Some(SeedTask)
    /\ tasks = <<SeedTask>>

\* The caller may cancel the task by the service's rule: its client.
MayCancel(cred, task) ==
    cred.role = "CLIENT" /\ cred.sub = task.clientId

\* C22: updateTask and cancelTask check existence, then authorization, then
\* (update only) the empty patch, and write only after every check passed: a
\* missing id is NotFound whatever the caller and the patch, a caller who is
\* not authorized is Forbidden also with an empty patch, and a request that
\* fails has executed no UPDATE and changed nothing.
C22_CheckOrder ==
    [][/\ (/\ Did("update") \/ Did("cancel")
           /\ last'.cred.valid
           /\ ~Exists(last'.id))
          => (last'.code = HTTP_404_NOT_FOUND /\ tasks' = tasks)
       /\ (/\ Did("update")
           /\ last'.cred.valid
           /\ Exists(last'.id)
           /\ ~MayUpdate(last'.cred, tasks[last'.id]))
          => (Forbidden(last'.code) /\ tasks' = tasks)
       /\ (/\ Did("cancel")
           /\ last'.cred.valid
           /\ Exists(last'.id)
           /\ ~MayCancel(last'.cred, tasks[last'.id]))
          => (Forbidden(last'.code) /\ tasks' = tasks)
       /\ (/\ Did("update")
           /\ last'.cred.valid
           /\ Exists(last'.id)
           /\ MayUpdate(last'.cred, tasks[last'.id])
           /\ ~NonEmptyPatch(last'.req))
          => (BadRequest(last'.code) /\ tasks' = tasks)
       /\ (/\ Did("update") \/ Did("cancel")
           /\ last'.code # OK)
          => /\ tasks' = tasks
             /\ \A i \in DOMAIN last'.db : last'.db[i] # "UPDATE"]_vars

\* C23: in every reachable state the platform fee of every stored task is 5%
\* of the task's current price.
C23_FeeFollowsPrice ==
    \A id \in DOMAIN tasks :
        tasks[id].platformFeeGHS * 100 = tasks[id].priceGHS * 5 * FeeScale

\* C24: updateTask by the task's client or its tasker with a patch that sets
\* status succeeds whatever the task's current status, and the task then has
\* the patch's status.
C24_AnyStatusMayFollow ==
    [][(/\ Did("update")
        /\ last'.cred.valid
        /\ Exists(last'.id)
        /\ MayUpdate(last'.cred, tasks[last'.id])
        /\ last'.req.status # None)
       => /\ last'.code = OK
          /\ tasks'[last'.id].status = last'.req.status[1]]_vars

\* The second of two requests was the tasker's patch that set IN_PROGRESS.
C24_Witness ==
    /\ nops = 2
    /\ last.op = "update"
    /\ last.code = OK
    /\ last.cred.role = "TASKER"
    /\ last.req.status = Some("IN_PROGRESS")
    /\ tasks[last.id].status = "IN_PROGRESS"

\* C27: cancelTask by the task's client succeeds whatever the task's status,
\* COMPLETED and CANCELLED included, and leaves it CANCELLED; on a task that
\* is already CANCELLED it changes nothing but updatedAt, so cancelling twice
\* gives the state of cancelling once.
C27_CancelFromEveryStatus ==
    [][/\ (/\ Did("cancel")
           /\ last'.cred.valid
           /\ Exists(last'.id)
           /\ MayCancel(last'.cred, tasks[last'.id]))
          => /\ last'.code = OK
             /\ tasks'[last'.id].status = "CANCELLED"
       /\ (/\ Did("cancel")
           /\ last'.code = OK
           /\ tasks[last'.id].status = "CANCELLED")
          => /\ DOMAIN tasks' = DOMAIN tasks
             /\ \A i \in DOMAIN tasks :
                   \A f \in DOMAIN tasks[i] \ {"updatedAt"} :
                       tasks'[i][f] = tasks[i][f]]_vars

\* The second of two requests was a cancellation by the task's client, at a
\* later time than the first.
C27_Witness ==
    /\ nops = 2
    /\ now = 1
    /\ last.op = "cancel"
    /\ last.code = OK
    /\ last.cred = OwnerClient
    /\ tasks[last.id].status = "CANCELLED"
    /\ tasks[last.id].updatedAt = Some(1)

\* The ids of the rows of a listing's page.
PageIds(res) == {res.data[k].id : k \in DOMAIN res.data}

\* C25: of two listTasks calls with the same filter and limit and no request
\* between them, the same page holds the same rows in the same order and
\* different pages have no task in common, also when tasks have the same
\* creation time; so the pages 1..totalPages hold every matching task once.
C25_PagesPartition ==
    [][(/\ last.op = "list"
        /\ Did("list")
        /\ last'.req.filter = last.req.filter
        /\ last'.req.limit = last.req.limit)
       => IF last'.req.page = last.req.page
          THEN last'.res.data = last.res.data
          ELSE PageIds(last'.res) \cap PageIds(last.res) = {}]_vars

\* C26: createTask with an estimated duration of zero or less is rejected and
\* stores nothing, and after every step every stored task has an estimated
\* duration above zero.
C26_DurationPositive ==
    [][/\ (Did("create") /\ last'.req.durationEstMins <= 0)
          => (BadRequest(last'.code) /\ tasks' = tasks)
       /\ \A id \in DOMAIN tasks' : tasks'[id].durationEstMins > 0]_vars

\* C28: the body of a listTasks that ran while tasks were created, updated
\* or cancelled has as total the number of tasks matching the filter in the
\* store its items were read from, and no more items than total.
C28_ListIsOneSnapshot ==
    \A p \in DOMAIN conc :
        conc[p].pc = "done"
        => /\ conc[p].res.total =
                 Cardinality(matching(conc[p].read_from, conc[p].filter))
           /\ Len(conc[p].res.data) <= conc[p].res.total

\* C29: a register that follows a successful verify-otp, for the same phone
\* and with the same code and no user of that phone, succeeds and stores the
\* user.
C29_VerifiedCodeRegisters ==
    [][(/\ last.op = "verify_otp"
        /\ last.code = OK
        /\ Did("register")
        /\ last'.req.phone = last.req.phone
        /\ last'.req.otp = last.req.otp
        /\ ~user_exists(users, last.req.phone))
       => /\ last'.code = OK
          /\ user_exists(users', last.req.phone)]_vars

\* C30: a verify-otp or register that succeeds was sent the code stored for
\* its phone and removes that entry, one that fails leaves every entry as it
\* was, one for a phone with no entry is answered 400, and only request-otp
\* stores an entry.
C30_OtpSingleUse ==
    [][/\ (Did("verify_otp") \/ Did("register"))
          => /\ IF last'.code = OK
                THEN /\ last'.req.phone \in DOMAIN otp_storage
                     /\ otp_storage[last'.req.phone] = last'.req.otp
                     /\ DOMAIN otp_storage' =
                           DOMAIN otp_storage \ {last'.req.phone}
                     /\ \A q \in DOMAIN otp_storage' :
                           otp_storage'[q] = otp_storage[q]
                ELSE otp_storage' = otp_storage
             /\ last'.req.phone \notin DOMAIN otp_storage
                   => last'.code = HTTP_400_BAD_REQUEST
       /\ ~Did("request_otp")
          => DOMAIN otp_storage' \subseteq DOMAIN otp_storage]_vars

\* A user was registered with the code of their phone, and a verify-otp for
\* that phone with an issued code was then answered 400.
C30_Witness ==
    /\ last.op = "verify_otp"
    /\ last.code = HTTP_400_BAD_REQUEST
    /\ last.req.otp \in Otps
    /\ user_exists(users, last.req.phone)
    /\ last.req.phone \notin DOMAIN otp_storage

====
